---- MODULE Spec2Model ----
(***************************************************************************)
(* The chat-room client of src/App.tsx as a state machine.                 *)
(*                                                                         *)
(* State: the component's useState cells (name, roomCode, currentMessage,  *)
(* connectionStatus, error, messages, participants), the wsRef ref, and    *)
(* every WebSocket object the component has constructed, each with its     *)
(* readyState, the name/roomCode its callbacks closed over, and the frames *)
(* it accepted for transmission.  A render is taken to follow each handler *)
(* at once, so a handler reads the state cells as they are.                *)
(*                                                                         *)
(* Strings the code trims, measures or upper-cases are sequences of        *)
(* one-character strings; fixed messages are TLA+ strings.                 *)
(*                                                                         *)
(* The WebSocket constructor is given one constant, well-formed wss URL,   *)
(* for which it does not throw, so the catch of lines 107-111 is not       *)
(* taken and is not modelled.                                              *)
(*                                                                         *)
(* JSON null and undefined are the strings JsonNull and Undefined.  A      *)
(* user_list payload is always an array here (its elements need not be     *)
(* names); a payload that is no array at all is not modelled.              *)
(***************************************************************************)
EXTENDS Integers, Sequences, FiniteSets, TLC

VARIABLES
  name,              \* useState("")                           line 5
  messages,          \* useState([])                           lines 6-10
  roomCode,          \* useState("")                           line 11
  connectionStatus,  \* useState('disconnected')               line 12
  error,             \* useState(null)                         line 13
  currentMessage,    \* useState("")                           line 14
  participants,      \* useState([])                           line 15
  wsRef,             \* useRef(null): 0 is null, else an index into sockets
  sockets,           \* every WebSocket constructed so far, in order
  mounted,           \* the component is mounted
  lastEvent,         \* history: the handler that ran last, and how
  steps              \* history: handlers run so far

vars == <<name, messages, roomCode, connectionStatus, error, currentMessage,
          participants, wsRef, sockets, mounted, lastEvent, steps>>

(***************************************************************************)
(* Bounds of the model.                                                    *)
(***************************************************************************)
MaxSockets == 2      \* WebSocket objects constructed in one run
MaxMsgs == 2         \* chat_message frames appended to messages
MaxSends == 1        \* chat_message frames accepted for transmission
MaxNow == 1          \* Date.now() returns a value in 1..MaxNow
MaxSteps == 9       \* handlers (user events and transport events) in one run

(***************************************************************************)
(* Strings.                                                                *)
(***************************************************************************)
JsonNull == "<null>"

Undefined == "<undefined>"

NoError == JsonNull

Whitespace == {" ", "\t"}

LowerCase == <<"a","b","c","d","e","f","g","h","i","j","k","l","m",
               "n","o","p","q","r","s","t","u","v","w","x","y","z">>

characters == <<"A","B","C","D","E","F","G","H","I","J","K","L","M",
                "N","O","P","Q","R","S","T","U","V","W","X","Y","Z",
                "0","1","2","3","4","5","6","7","8","9">>

RoomCodeLength == 6

RECURSIVE TrimStart(_)
TrimStart(s) ==
  IF s /= <<>> /\ Head(s) \in Whitespace THEN TrimStart(Tail(s)) ELSE s

RECURSIVE TrimEnd(_)
TrimEnd(s) ==
  IF s /= <<>> /\ s[Len(s)] \in Whitespace
  THEN TrimEnd(SubSeq(s, 1, Len(s) - 1))
  ELSE s

\* String.prototype.trim
Trim(s) == TrimEnd(TrimStart(s))

UpperChar(c) ==
  IF \E i \in 1..Len(LowerCase) : LowerCase[i] = c
  THEN characters[CHOOSE i \in 1..Len(LowerCase) : LowerCase[i] = c]
  ELSE c

\* String.prototype.toUpperCase
ToUpperCase(s) == [i \in 1..Len(s) |-> UpperChar(s[i])]

(***************************************************************************)
(* Inputs.                                                                 *)
(***************************************************************************)
\* what the user may type into the name field
NameInputs == { <<" ">>, <<" ","a">> }

\* what the user may type into the room code field (maxLength 6)
RoomCodeInputs ==
  { <<"a","b","c","1","2","3">>, <<" ","a","b","c","d"," ">>, <<"a","b","c">> }

\* what the user may type into the message field
MessageInputs == { <<" ">>, <<"h","i"," ">> }

\* the six indices Math.random() selects in generateRandomCode
RandomDraws == { <<0, 1, 2, 27, 28, 29>> }

Timestamps == 1..MaxNow

\* text frames the server may deliver
UserLists == { <<"alice", "bob">>, <<"bob">> }

\* a user_list payload that is an array, but not of names: [null]
BadUserLists == { <<JsonNull>> }

ChatPayloads ==
  { [sender |-> "a", text |-> "hi"], [sender |-> "b", text |-> "yo"] }

ServerErrors == { "Room is full" }

\* json: the text parses; hasPayload: the object has a payload member;
\* payload <<>> is the empty object {}
Frame(type, payload) ==
  [json |-> TRUE, type |-> type, hasPayload |-> TRUE, payload |-> payload]

WellFormedFrames ==
  { Frame("room_joined", <<>>) }
  \cup { Frame("user_list", p) : p \in UserLists }
  \cup { Frame("chat_message", p) : p \in ChatPayloads }
  \cup { Frame("error", [message |-> m]) : m \in ServerErrors }

\* a recognized type with a payload of the wrong shape
WrongShapeFrames ==
  { Frame("user_list", p) : p \in BadUserLists }
  \cup { Frame("chat_message", <<>>), Frame("error", <<>>) }
  \cup { [json |-> TRUE, type |-> ty, hasPayload |-> FALSE, payload |-> <<>>] :
           ty \in {"chat_message", "error"} }

\* an unrecognized type, and a text that is not JSON
UnrecognizedFrames ==
  { Frame("ping", <<>>),
    [json |-> FALSE, type |-> "", hasPayload |-> FALSE, payload |-> <<>>] }

InboundFrames == WellFormedFrames \cup WrongShapeFrames \cup UnrecognizedFrames

\* obj.member, undefined when obj has no such member
Member(obj, m) == IF m \in DOMAIN obj THEN obj[m] ELSE Undefined

Sockets == 1..Len(sockets)

\* op: the handler; from: connectionStatus as it ran; res: the branch it took;
\* arg: the payload of the frame an onmessage received.  A callback that runs
\* after the unmount is recorded as op "unmounted", with the callback as res.
EventWith(op, res, arg) ==
  IF mounted
  THEN [op |-> op, from |-> connectionStatus, res |-> res, arg |-> arg]
  ELSE [op |-> "unmounted", from |-> connectionStatus, res |-> op, arg |-> arg]

\* a state setter: React drops the update of an unmounted component
SetState(current, new) == IF mounted THEN new ELSE current

Event(op, res) == EventWith(op, res, <<>>)

(***************************************************************************)
(* The WebSocket object, as the component uses it.                         *)
(***************************************************************************)
\* ws.send(data): throws while CONNECTING, transmits while OPEN, and
\* silently discards once CLOSING or CLOSED
SendOutcome(rs) ==
  IF rs = "CONNECTING" THEN "throws" ELSE IF rs = "OPEN" THEN "sent" ELSE "dropped"

WsSend(sock, frame) ==
  IF SendOutcome(sock.readyState) = "sent"
  THEN [sock EXCEPT !.sent = Append(@, frame)]
  ELSE sock

\* ws.close(): starts the closing of a CONNECTING or OPEN socket
WsCloseCall(sock) ==
  IF sock.readyState \in {"CONNECTING", "OPEN"}
  THEN [sock EXCEPT !.readyState = "CLOSING"]
  ELSE sock

\* lines 154-160: the effect cleanup run at unmount
Cleanup(socks) ==
  IF wsRef /= 0 THEN [socks EXCEPT ![wsRef] = WsCloseCall(@)] ELSE socks

ChatFramesSent ==
  Cardinality({ <<s, i>> \in Sockets \X (1..(MaxSockets + MaxSends + 2)) :
                  i <= Len(sockets[s].sent) /\ sockets[s].sent[i].type = "chat_message" })

Init ==
  /\ name = <<>>
  /\ messages = <<>>
  /\ roomCode = <<>>
  /\ connectionStatus = "disconnected"
  /\ error = NoError
  /\ currentMessage = <<>>
  /\ participants = <<>>
  /\ wsRef = 0
  /\ sockets = <<>>
  /\ mounted = TRUE
  /\ lastEvent = [op |-> "init", from |-> "disconnected", res |-> "ok", arg |-> <<>>]
  /\ steps = 0

(***************************************************************************)
(* Input fields and the Create New Room button.                            *)
(***************************************************************************)
\* onChange of the name field, line 192
setName(v) ==
  /\ name' = v
  /\ lastEvent' = Event("setName", "ok")
  /\ UNCHANGED <<messages, roomCode, connectionStatus, error, currentMessage,
                 participants, wsRef, sockets>>

\* onChange of the room code field, lines 201-203
setRoomCode(v) ==
  /\ Len(v) <= RoomCodeLength
  /\ roomCode' = ToUpperCase(v)
  /\ lastEvent' = Event("setRoomCode", "ok")
  /\ UNCHANGED <<name, messages, connectionStatus, error, currentMessage,
                 participants, wsRef, sockets>>

\* lines 20-28: one character of `characters` per random index
generateRandomCode(draw) ==
  /\ roomCode' = [i \in 1..RoomCodeLength |-> characters[draw[i] + 1]]
  /\ lastEvent' = Event("generateRandomCode", "ok")
  /\ UNCHANGED <<name, messages, connectionStatus, error, currentMessage,
                 participants, wsRef, sockets>>

\* onChange of the message field, line 288
setCurrentMessage(v) ==
  /\ currentMessage' = v
  /\ lastEvent' = Event("setCurrentMessage", "ok")
  /\ UNCHANGED <<name, messages, roomCode, connectionStatus, error,
                 participants, wsRef, sockets>>

(***************************************************************************)
(* connectToWebSocket, lines 40-112.                                       *)
(***************************************************************************)
\* line 42 without the trim
NameValid_NoTrim == name /= <<>>

\* line 42: !name.trim() is false
NameValid == Trim(name) /= <<>>

\* line 46: !roomCode.trim() || roomCode.length !== 6 is false
RoomCodeValid == Trim(roomCode) /= <<>> /\ Len(roomCode) = RoomCodeLength

\* line 55: the new WebSocket, whose callbacks close over name and roomCode
NewWebSocket ==
  [readyState |-> "CONNECTING", name |-> name, roomCode |-> roomCode, sent |-> <<>>]

connectToWebSocket ==
  IF ~NameValid
  THEN /\ error' = "Please enter your name"
       /\ lastEvent' = Event("join", "invalid_name")
       /\ UNCHANGED <<name, messages, roomCode, connectionStatus, currentMessage,
                      participants, wsRef, sockets>>
  ELSE IF ~RoomCodeValid
  THEN /\ error' = "Please enter a valid 6-character room code"
       /\ lastEvent' = Event("join", "invalid_code")
       /\ UNCHANGED <<name, messages, roomCode, connectionStatus, currentMessage,
                      participants, wsRef, sockets>>
  ELSE /\ Len(sockets) < MaxSockets
       /\ error' = NoError
       /\ connectionStatus' = "connecting"
       /\ sockets' = Append(sockets, NewWebSocket)
       /\ wsRef' = Len(sockets) + 1
       /\ lastEvent' = Event("join", "ok")
       /\ UNCHANGED <<name, messages, roomCode, currentMessage, participants>>

(***************************************************************************)
(* The callbacks of socket s, lines 57-104.                                *)
(***************************************************************************)
\* lines 58-64 with the name sent as typed
joinMessage_Untrimmed(sock) ==
  [type |-> "join",
   payload |-> [roomId |-> sock.roomCode, userName |-> sock.name]]

\* lines 58-64: built from the name and roomCode of the render that joined
joinMessage(sock) ==
  [type |-> "join",
   payload |-> [roomId |-> sock.roomCode, userName |-> Trim(sock.name)]]

\* lines 57-67: runs with the socket OPEN
ws_onopen(s, socks) ==
  /\ sockets' = [socks EXCEPT ![s] = WsSend(@, joinMessage(@))]
  /\ connectionStatus' = SetState(connectionStatus, "connected")

\* lines 96-100
ws_onerror ==
  /\ connectionStatus' = SetState(connectionStatus, "disconnected")
  /\ error' = SetState(error, "Failed to connect to the room")

\* lines 102-104
ws_onclose ==
  connectionStatus' = SetState(connectionStatus, "disconnected")

\* lines 81-85: the entry appended for a chat_message frame
ChatEntry(payload, now) ==
  [sender |-> Member(payload, "sender"), text |-> Member(payload, "text"),
   timestamp |-> now]

\* lines 81-85: reading a member of a missing payload throws, and the updater
\* runs when React renders, outside the try of lines 70-93
UpdaterThrows(frame) ==
  frame.json /\ frame.type = "chat_message" /\ ~frame.hasPayload

\* lines 69-94 with user_list merged into participants instead of replacing it
ws_onmessage_Merge(frame, now) ==
  IF ~frame.json
  THEN UNCHANGED <<participants, messages, error>>
  ELSE CASE frame.type = "room_joined" ->
              UNCHANGED <<participants, messages, error>>
         [] frame.type = "user_list" ->
              /\ participants' =
                   participants \o SelectSeq(frame.payload,
                                             LAMBDA u : \A i \in 1..Len(participants) :
                                                          participants[i] /= u)
              /\ UNCHANGED <<messages, error>>
         [] frame.type = "chat_message" /\ frame.hasPayload ->
              /\ Len(messages) < MaxMsgs
              /\ messages' = Append(messages, ChatEntry(frame.payload, now))
              /\ UNCHANGED <<participants, error>>
         [] frame.type = "error" /\ frame.hasPayload ->
              /\ error' = Member(frame.payload, "message")
              /\ UNCHANGED <<participants, messages>>
         [] OTHER ->
              UNCHANGED <<participants, messages, error>>

\* lines 69-94 with the new chat_message put first instead of last
ws_onmessage_Prepend(frame, now) ==
  IF ~frame.json
  THEN UNCHANGED <<participants, messages, error>>
  ELSE CASE frame.type = "room_joined" ->
              UNCHANGED <<participants, messages, error>>
         [] frame.type = "user_list" ->
              /\ participants' = frame.payload
              /\ UNCHANGED <<messages, error>>
         [] frame.type = "chat_message" /\ frame.hasPayload ->
              /\ Len(messages) < MaxMsgs
              /\ messages' = <<ChatEntry(frame.payload, now)>> \o messages
              /\ UNCHANGED <<participants, error>>
         [] frame.type = "error" /\ frame.hasPayload ->
              /\ error' = Member(frame.payload, "message")
              /\ UNCHANGED <<participants, messages>>
         [] OTHER ->
              UNCHANGED <<participants, messages, error>>

\* lines 69-94 with a catch and a default case that report through error
ws_onmessage_ReportsUnknown(frame, now) ==
  IF ~frame.json
  THEN /\ error' = "Failed to parse message"
       /\ UNCHANGED <<participants, messages>>
  ELSE CASE frame.type = "room_joined" ->
              UNCHANGED <<participants, messages, error>>
         [] frame.type = "user_list" ->
              /\ participants' = frame.payload
              /\ UNCHANGED <<messages, error>>
         [] frame.type = "chat_message" /\ frame.hasPayload ->
              /\ Len(messages) < MaxMsgs
              /\ messages' = Append(messages, ChatEntry(frame.payload, now))
              /\ UNCHANGED <<participants, error>>
         [] frame.type = "error" /\ frame.hasPayload ->
              /\ error' = Member(frame.payload, "message")
              /\ UNCHANGED <<participants, messages>>
         [] OTHER ->
              /\ error' = "Unknown message type"
              /\ UNCHANGED <<participants, messages>>

\* lines 69-94: JSON.parse, then the switch on the frame's type.  An error
\* frame without payload throws inside the try; a chat_message frame without
\* payload enqueues an updater that throws later (UpdaterThrows); the default
\* of the switch does nothing.
ws_onmessage(frame, now) ==
  IF ~frame.json
  THEN UNCHANGED <<participants, messages, error>>
  ELSE CASE frame.type = "room_joined" ->
              UNCHANGED <<participants, messages, error>>
         [] frame.type = "user_list" ->
              /\ participants' = frame.payload
              /\ UNCHANGED <<messages, error>>
         [] frame.type = "chat_message" /\ frame.hasPayload ->
              /\ Len(messages) < MaxMsgs
              /\ messages' = Append(messages, ChatEntry(frame.payload, now))
              /\ UNCHANGED <<participants, error>>
         [] frame.type = "error" /\ frame.hasPayload ->
              /\ error' = Member(frame.payload, "message")
              /\ UNCHANGED <<participants, messages>>
         [] OTHER ->
              UNCHANGED <<participants, messages, error>>

(***************************************************************************)
(* Transport events.  A browser delivers open once, to a CONNECTING        *)
(* socket; messages only while the socket is OPEN; and ends every socket   *)
(* with a close event, preceded in the same task by an error event when    *)
(* the connection failed.                                                  *)
(***************************************************************************)
WsOpen(s) ==
  /\ sockets[s].readyState = "CONNECTING"
  /\ ws_onopen(s, [sockets EXCEPT ![s].readyState = "OPEN"])
  /\ lastEvent' = Event("open", "ok")
  /\ UNCHANGED <<name, messages, roomCode, error, currentMessage, participants,
                 wsRef, mounted>>

\* An error thrown while React renders, with no error boundary above the
\* component, unmounts the tree, and the unmount runs the effect cleanup.
WsMessage(s, frame, now) ==
  /\ sockets[s].readyState = "OPEN"
  /\ IF mounted
     THEN ws_onmessage(frame, now)
     ELSE UNCHANGED <<participants, messages, error>>
  /\ IF mounted /\ UpdaterThrows(frame)
     THEN mounted' = FALSE /\ sockets' = Cleanup(sockets)
     ELSE UNCHANGED <<mounted, sockets>>
  /\ lastEvent' = EventWith(IF frame.json THEN frame.type ELSE "badjson",
                            IF UpdaterThrows(frame) THEN "render_threw" ELSE "ok",
                            frame.payload)
  /\ UNCHANGED <<name, roomCode, connectionStatus, currentMessage, wsRef>>

\* the connection fails: error event, then close event
WsFail(s) ==
  /\ sockets[s].readyState \in {"CONNECTING", "OPEN", "CLOSING"}
  /\ sockets' = [sockets EXCEPT ![s].readyState = "CLOSED"]
  /\ ws_onerror
  /\ ws_onclose
  /\ lastEvent' = Event("error_close", "ok")
  /\ UNCHANGED <<name, messages, roomCode, currentMessage, participants, wsRef,
                 mounted>>

\* the connection closes cleanly: close event alone
WsClose(s) ==
  /\ sockets[s].readyState \in {"OPEN", "CLOSING"}
  /\ sockets' = [sockets EXCEPT ![s].readyState = "CLOSED"]
  /\ ws_onclose
  /\ lastEvent' = Event("close", "ok")
  /\ UNCHANGED <<name, messages, roomCode, error, currentMessage, participants,
                 wsRef, mounted>>

(***************************************************************************)
(* sendMessage, lines 114-128.                                             *)
(***************************************************************************)
\* lines 116-123
chatMessage ==
  [type |-> "chat_message",
   payload |-> [roomId |-> roomCode, sender |-> name, text |-> Trim(currentMessage)]]

\* line 115 without the test of connectionStatus
CanSend_NoStatusCheck ==
  Trim(currentMessage) /= <<>> /\ wsRef /= 0

\* line 115
CanSend ==
  Trim(currentMessage) /= <<>> /\ wsRef /= 0 /\ connectionStatus = "connected"

sendMessage ==
  IF CanSend
  THEN IF SendOutcome(sockets[wsRef].readyState) = "throws"
       THEN \* line 125 throws; line 126 is not reached
            /\ lastEvent' = Event("send", "threw")
            /\ UNCHANGED <<name, messages, roomCode, connectionStatus, error,
                           currentMessage, participants, wsRef, sockets>>
       ELSE /\ SendOutcome(sockets[wsRef].readyState) = "sent"
               => ChatFramesSent < MaxSends
            /\ sockets' = [sockets EXCEPT ![wsRef] = WsSend(@, chatMessage)]
            /\ currentMessage' = <<>>
            /\ lastEvent' = Event("send", SendOutcome(sockets[wsRef].readyState))
            /\ UNCHANGED <<name, messages, roomCode, connectionStatus, error,
                           participants, wsRef>>
  ELSE /\ lastEvent' = Event("send", "noop")
       /\ UNCHANGED <<name, messages, roomCode, connectionStatus, error,
                      currentMessage, participants, wsRef, sockets>>

(***************************************************************************)
(* leaveRoom, lines 130-146.                                               *)
(***************************************************************************)
\* lines 132-138
leaveMessage ==
  [type |-> "leave", payload |-> [roomId |-> roomCode, userName |-> name]]

leaveRoom ==
  IF wsRef /= 0
  THEN IF SendOutcome(sockets[wsRef].readyState) = "throws"
       THEN \* line 139 throws; lines 140-144 are not reached
            /\ lastEvent' = Event("leave", "threw")
            /\ UNCHANGED <<name, messages, roomCode, connectionStatus, error,
                           currentMessage, participants, wsRef, sockets>>
       ELSE /\ sockets' = [sockets EXCEPT
                             ![wsRef] = WsCloseCall(WsSend(@, leaveMessage))]
            /\ wsRef' = 0
            /\ connectionStatus' = "disconnected"
            /\ messages' = <<>>
            /\ participants' = <<>>
            /\ lastEvent' = Event("leave", SendOutcome(sockets[wsRef].readyState))
            /\ UNCHANGED <<name, roomCode, error, currentMessage>>
  ELSE /\ lastEvent' = Event("leave", "noop")
       /\ UNCHANGED <<name, messages, roomCode, connectionStatus, error,
                      currentMessage, participants, wsRef, sockets>>

(***************************************************************************)
(* Which controls are rendered, lines 163-302.                             *)
(***************************************************************************)
\* line 163: the join form is rendered unless connected; else the chat room
JoinFormShown == connectionStatus /= "connected"

ChatRoomShown == connectionStatus = "connected"

\* lines 153-160: the page goes away and React unmounts the component
Unmount ==
  /\ mounted
  /\ mounted' = FALSE
  /\ sockets' = Cleanup(sockets)
  /\ lastEvent' = Event("unmount", "ok")
  /\ UNCHANGED <<name, messages, roomCode, connectionStatus, error,
                 currentMessage, participants, wsRef>>

\* one more handler runs
Step == steps < MaxSteps /\ steps' = steps + 1

\* a control of the mounted component is used
UserStep == Step /\ mounted /\ UNCHANGED mounted

Teardown == Step /\ Unmount

\* transport events of the sockets constructed so far
TransportOpen == Step /\ \E s \in Sockets : WsOpen(s)

TransportMessage ==
  Step /\ \E s \in Sockets, frame \in InboundFrames, now \in Timestamps :
            WsMessage(s, frame, now)

TransportFail == Step /\ \E s \in Sockets : WsFail(s)

TransportClose == Step /\ \E s \in Sockets : WsClose(s)

TransportEvent ==
  TransportOpen \/ TransportMessage \/ TransportFail \/ TransportClose

\* the controls the component renders, each with its handler
TypeName == UserStep /\ JoinFormShown /\ \E v \in NameInputs : setName(v)

TypeRoomCode == UserStep /\ JoinFormShown /\ \E v \in RoomCodeInputs : setRoomCode(v)

ClickCreateRoom ==
  UserStep /\ JoinFormShown /\ \E draw \in RandomDraws : generateRandomCode(draw)

ClickJoin == UserStep /\ JoinFormShown /\ connectToWebSocket

TypeMessage ==
  UserStep /\ ChatRoomShown /\ \E v \in MessageInputs : setCurrentMessage(v)

ClickSend == UserStep /\ ChatRoomShown /\ sendMessage

ClickLeave == UserStep /\ ChatRoomShown /\ leaveRoom

\* the component driven through the controls it renders
Next ==
  \/ TypeName
  \/ TypeRoomCode
  \/ ClickCreateRoom
  \/ ClickJoin
  \/ TypeMessage
  \/ ClickSend
  \/ ClickLeave
  \/ TransportEvent
  \/ Teardown

Spec == Init /\ [][Next]_vars

\* the handlers called as the intent surface join/send/leave, in any state
EditName == UserStep /\ \E v \in NameInputs : setName(v)

EditRoomCode == UserStep /\ \E v \in RoomCodeInputs : setRoomCode(v)

CreateRoom == UserStep /\ \E draw \in RandomDraws : generateRandomCode(draw)

EditMessage == UserStep /\ \E v \in MessageInputs : setCurrentMessage(v)

Join == UserStep /\ connectToWebSocket

Send == UserStep /\ sendMessage

Leave == UserStep /\ leaveRoom

NextIntents ==
  \/ EditName
  \/ EditRoomCode
  \/ CreateRoom
  \/ EditMessage
  \/ Join
  \/ Send
  \/ Leave
  \/ TransportEvent
  \/ Teardown

SpecIntents == Init /\ [][NextIntents]_vars

(***************************************************************************)
(* Properties.                                                             *)
(***************************************************************************)
\* the useState cells, the ref and the sockets: everything but the history
programVars ==
  <<name, messages, roomCode, connectionStatus, error, currentMessage,
    participants, wsRef, sockets, mounted>>

AllWhitespace(s) == \A i \in 1..Len(s) : s[i] \in Whitespace

\* t is s without its leading and trailing whitespace
IsTrimOf(t, s) ==
  /\ t = <<>> \/ (t[1] \notin Whitespace /\ t[Len(t)] \notin Whitespace)
  /\ \E i \in 0..Len(s) :
       /\ i + Len(t) <= Len(s)
       /\ SubSeq(s, i + 1, i + Len(t)) = t
       /\ AllWhitespace(SubSeq(s, 1, i))
       /\ AllWhitespace(SubSeq(s, i + Len(t) + 1, Len(s)))

\* six characters, each an upper-case letter or a digit
IsRoomCode(c) ==
  /\ Len(c) = RoomCodeLength
  /\ \A i \in 1..Len(c) : \E k \in 1..Len(characters) : characters[k] = c[i]

FramesOfType(sock, type) ==
  SelectSeq(sock.sent, LAMBDA f : f.type = type)

\* C1: connectionStatus becomes connected only by the receipt of a
\* room_joined frame; the transport's open event alone never makes the
\* session connected.
C1_ConnectedOnlyAfterRoomJoined ==
  [][(connectionStatus /= "connected" /\ connectionStatus' = "connected")
       => lastEvent'.op = "room_joined"]_vars

\* C2: whenever connectionStatus is disconnected, participants and messages
\* are both empty.
C2_DisconnectedImpliesEmpty ==
  connectionStatus = "disconnected" => (participants = <<>> /\ messages = <<>>)

\* C3: a transport close event received while connected leaves the session
\* disconnected with participants and messages both empty.
C3_CloseWhileConnectedResets ==
  [][(lastEvent'.op = "close" /\ connectionStatus = "connected")
       => /\ connectionStatus' = "disconnected"
          /\ participants' = <<>>
          /\ messages' = <<>>]_vars

C4_JoinStep ==
  (lastEvent'.op = "join" /\ connectionStatus = "disconnected"
     /\ ~AllWhitespace(name) /\ IsRoomCode(roomCode))
  => /\ connectionStatus' = "connecting"
     /\ error' = NoError
     /\ Len(sockets') = Len(sockets) + 1
     /\ SubSeq(sockets', 1, Len(sockets)) = sockets
     /\ wsRef' = Len(sockets')
     /\ sockets'[wsRef'].readyState = "CONNECTING"
     /\ sockets'[wsRef'].sent = <<>>
     /\ sockets'[wsRef'].name = name
     /\ sockets'[wsRef'].roomCode = roomCode

C4_JoinFrameStep ==
  \A s \in Sockets :
    /\ sockets'[s].name = sockets[s].name
    /\ sockets'[s].roomCode = sockets[s].roomCode
    /\ IF sockets[s].readyState = "CONNECTING" /\ sockets'[s].readyState = "OPEN"
       THEN /\ Len(sockets'[s].sent) = 1
            /\ sockets'[s].sent[1].type = "join"
            /\ sockets'[s].sent[1].payload.roomId = sockets[s].roomCode
            /\ IsTrimOf(sockets'[s].sent[1].payload.userName, sockets[s].name)
       ELSE FramesOfType(sockets'[s], "join") = FramesOfType(sockets[s], "join")

\* C4: a join issued while disconnected with a name that is not all
\* whitespace and a well-formed room code makes the session connecting,
\* clears the error and constructs one transport for that name and code; a
\* transport sends exactly one join frame, when it opens and at no other
\* time, carrying the code given at its join and that name trimmed.
C4_ValidJoinSendsOneJoinFrame ==
  [][C4_JoinStep /\ C4_JoinFrameStep]_vars

C4_Witness ==
  /\ connectionStatus = "connected"
  /\ lastEvent.op = "open"
  /\ \E s \in Sockets :
       /\ sockets[s].readyState = "OPEN"
       /\ sockets[s].name = <<" ", "a">>
       /\ sockets[s].sent =
            << [type |-> "join",
                payload |-> [roomId |-> <<"A","B","C","1","2","3">>,
                             userName |-> <<"a">>]] >>

\* C5: a join issued while disconnected with an empty or all-whitespace
\* name leaves the session disconnected, sets a non-empty error, constructs
\* no transport, sends no frame and leaves messages and participants alone.
C5_BlankNameJoinRejected ==
  [][(lastEvent'.op = "join" /\ connectionStatus = "disconnected"
        /\ AllWhitespace(name))
       => /\ connectionStatus' = "disconnected"
          /\ error' \notin {NoError, ""}
          /\ sockets' = sockets
          /\ wsRef' = wsRef
          /\ messages' = messages
          /\ participants' = participants]_vars

C5_Witness ==
  /\ lastEvent.op = "join"
  /\ lastEvent.from = "disconnected"
  /\ name = <<" ">>
  /\ IsRoomCode(roomCode)
  /\ error = "Please enter your name"
  /\ connectionStatus = "disconnected"

\* C6: a join with a valid name and a room code whose trimmed form is not
\* exactly six characters long fails validation: the error is set, the
\* status does not change and no transport is constructed.
C6_BadRoomCodeJoinRejected ==
  [][(lastEvent'.op = "join" /\ ~AllWhitespace(name)
        /\ Len(Trim(roomCode)) /= RoomCodeLength)
       => /\ error' \notin {NoError, ""}
          /\ connectionStatus' = connectionStatus
          /\ sockets' = sockets
          /\ wsRef' = wsRef]_vars

C7_LeaveStep ==
  (lastEvent'.op = "leave" /\ connectionStatus = "connected")
  => /\ wsRef /= 0
     /\ Len(sockets'[wsRef].sent) = Len(sockets[wsRef].sent) + 1
     /\ SubSeq(sockets'[wsRef].sent, 1, Len(sockets[wsRef].sent)) = sockets[wsRef].sent
     /\ sockets'[wsRef].sent[Len(sockets'[wsRef].sent)].type = "leave"
     /\ sockets'[wsRef].readyState \in {"CLOSING", "CLOSED"}
     /\ \A s \in Sockets \ {wsRef} : sockets'[s] = sockets[s]
     /\ messages' = <<>>
     /\ participants' = <<>>
     /\ connectionStatus' = "disconnected"

C7_SecondLeaveStep ==
  (lastEvent'.op = "leave" /\ lastEvent.op = "leave")
  => UNCHANGED programVars

\* C7: leave while connected sends exactly one leave frame on the transport
\* the component holds, closes that transport, empties messages and
\* participants and makes the session disconnected; a leave that directly
\* follows a leave changes nothing.
C7_LeaveWhileConnected ==
  [][C7_LeaveStep /\ C7_SecondLeaveStep]_vars

C8_Rejected ==
  AllWhitespace(currentMessage) \/ wsRef = 0 \/ connectionStatus /= "connected"

\* C8: a send whose text is empty after trimming, or made with no transport
\* held, or made while not connected, sends no frame and changes no state;
\* a chat_message frame is sent only by a send that none of these rejects,
\* in that very step.
C8_RejectedSendIsNoOp ==
  [][/\ (lastEvent'.op = "send" /\ C8_Rejected) => UNCHANGED programVars
     /\ \A s \in Sockets :
          FramesOfType(sockets'[s], "chat_message")
            /= FramesOfType(sockets[s], "chat_message")
          => (lastEvent'.op = "send" /\ ~C8_Rejected)]_vars

C8_Witness ==
  /\ lastEvent.op = "send"
  /\ lastEvent.res = "noop"
  /\ connectionStatus = "disconnected"
  /\ wsRef /= 0
  /\ ~AllWhitespace(currentMessage)

\* C9: a user_list frame received while connected makes participants
\* exactly the frame's payload, names and order alike.
C9_UserListReplacesParticipants ==
  [][(lastEvent'.op = "user_list" /\ connectionStatus = "connected")
       => participants' = lastEvent'.arg]_vars

C9_Witness ==
  /\ lastEvent.op = "user_list"
  /\ lastEvent.from = "connected"
  /\ lastEvent.arg = <<"bob">>
  /\ participants = <<"bob">>
  /\ connectionStatus = "connected"

\* C10: messages changes only by a received chat_message frame, which
\* appends one entry with the frame's sender and text at the end, or by a
\* leave, which empties it; every chat_message frame received with a payload
\* appends.
C10_MessagesAppendOnly ==
  [][/\ \/ messages' = messages
        \/ /\ lastEvent'.op = "chat_message"
           /\ Len(messages') = Len(messages) + 1
           /\ SubSeq(messages', 1, Len(messages)) = messages
           /\ messages'[Len(messages')].sender = Member(lastEvent'.arg, "sender")
           /\ messages'[Len(messages')].text = Member(lastEvent'.arg, "text")
        \/ /\ lastEvent'.op = "leave"
           /\ messages' = <<>>
     /\ (lastEvent'.op = "chat_message" /\ lastEvent'.res = "ok")
          => Len(messages') = Len(messages) + 1]_vars

C10_Witness ==
  /\ lastEvent.op = "chat_message"
  /\ Len(messages) = 2
  /\ messages[1].sender = "a" /\ messages[1].text = "hi"
  /\ messages[2].sender = "b" /\ messages[2].text = "yo"

\* the socket of index s is connecting or open
Live(s) == sockets[s].readyState \in {"CONNECTING", "OPEN"}

\* C11: a received frame that is not valid JSON, or whose type is not one the
\* component recognizes (ping), changes nothing in any connection state:
\* messages, participants, connectionStatus and error keep their values and
\* no socket is closed.
C11_UnrecognizedFrameIgnored ==
  [][lastEvent'.op \in {"ping", "badjson"}
       => /\ UNCHANGED <<messages, participants, connectionStatus, error>>
          /\ UNCHANGED <<sockets, wsRef, mounted>>]_vars

C11_Witness ==
  /\ lastEvent.op \in {"ping", "badjson"}
  /\ connectionStatus = "connected"
  /\ messages /= <<>>
  /\ participants /= <<>>
  /\ \E s \in Sockets : sockets[s].readyState = "OPEN"

\* C12: once connectionStatus is disconnected, every frame that still arrives
\* (room_joined, user_list, chat_message, error) is ignored: it changes none
\* of messages, participants, connectionStatus and error.
C12_FramesIgnoredWhenDisconnected ==
  [][(/\ connectionStatus = "disconnected"
      /\ lastEvent'.op \in {"room_joined", "user_list", "chat_message", "error"})
       => UNCHANGED <<messages, participants, connectionStatus, error>>]_vars

\* C13: in every state of the mounted component where connectionStatus is
\* disconnected, no socket is connecting or open.
C13_DisconnectedHasNoLiveTransport ==
  (mounted /\ connectionStatus = "disconnected") => \A s \in Sockets : ~Live(s)

\* C14: leaveRoom called while a socket is held and connectionStatus is
\* connecting or connected always closes that socket, sets connectionStatus
\* to disconnected and empties messages and participants, whether or not the
\* leave frame could be sent.
C14_LeaveAlwaysClosesAndResets ==
  [][(/\ lastEvent'.op = "leave"
      /\ wsRef /= 0
      /\ connectionStatus \in {"connecting", "connected"})
       => /\ sockets'[wsRef].readyState \in {"CLOSING", "CLOSED"}
          /\ connectionStatus' = "disconnected"
          /\ messages' = <<>>
          /\ participants' = <<>>]_vars

\* C15: a socket error or a close not asked for that takes connectionStatus
\* from connecting or connected to disconnected leaves error set; and error
\* goes back to null only by a join that passes validation.
C15_DropSetsError ==
  [][/\ (/\ connectionStatus \in {"connecting", "connected"}
         /\ connectionStatus' = "disconnected"
         /\ lastEvent'.op \in {"close", "error_close"})
          => error' \notin {NoError, Undefined}
     /\ (error /= NoError /\ error' = NoError)
          => (lastEvent'.op = "join" /\ lastEvent'.res = "ok")]_vars

\* C16: every frame the component hands to a socket is handed to a socket
\* that is open at that moment: no send or leave ends with a send that throws
\* (socket still connecting) or is discarded (socket closing or closed).
C16_FramesSentOnlyOnOpenTransport ==
  lastEvent.op \in {"send", "leave"} => lastEvent.res \in {"sent", "noop"}

\* C17: on every socket, each chat_message and leave frame sent after the
\* join frame carries the join frame's roomId, and as sender or userName the
\* join frame's (trimmed) userName.
C17_FramesCarryJoinIdentity ==
  \A s \in Sockets :
    \A i \in 2..Len(sockets[s].sent) :
      LET join == sockets[s].sent[1].payload
          sent == sockets[s].sent[i]
      IN  /\ sent.payload.roomId = join.roomId
          /\ sent.type = "chat_message" => sent.payload.sender = join.userName
          /\ sent.type = "leave" => sent.payload.userName = join.userName

\* C18: whatever the shape of the payloads received, participants is a
\* sequence of display names and every entry of messages has a sender and a
\* text.
C18_StateWellShaped ==
  /\ \A i \in 1..Len(participants) : participants[i] \notin {JsonNull, Undefined}
  /\ \A i \in 1..Len(messages) :
       messages[i].sender /= Undefined /\ messages[i].text /= Undefined

\* C19: at most one socket is connecting or open at any time.
C19_AtMostOneLiveTransport ==
  mounted => Cardinality({ s \in Sockets : Live(s) }) <= 1

\* C20: while the component is mounted, connectionStatus connected implies
\* that the socket held in wsRef is open; and an open, close or error event of
\* a socket that is not the one held (it was left or replaced) changes none of
\* connectionStatus, messages, participants and error of the session on the
\* socket held.
C20_StaleCallbacksIgnored ==
  /\ []((mounted /\ connectionStatus = "connected")
          => wsRef /= 0 /\ sockets[wsRef].readyState = "OPEN")
  /\ [][\A s \in Sockets :
          (/\ wsRef /= 0
           /\ s /= wsRef
           /\ lastEvent'.op \in {"open", "close", "error_close"}
           /\ sockets'[s].readyState /= sockets[s].readyState)
            => UNCHANGED <<connectionStatus, messages, participants, error>>]_vars

====
